---- MODULE Spec2Model ----
(***************************************************************************)
(* CompactFiltersBlockchain (src/blockchain/compact_filters/mod.rs):       *)
(* the `setup` orchestration, the worker threads it spawns and process_tx, *)
(* over a wallet database, a chain store, a CFSync coordinator and a peer. *)
(***************************************************************************)
EXTENDS Integers, Sequences, FiniteSets, TLC

\* ------------------------------------------------------------ bounds
MaxSetups == 2
MaxPeers == 2
MaxFailures == 1

\* ------------------------------------------------- program constants
SYNC_HEADERS_COST == 1
SYNC_FILTERS_COST == 11600
PROCESS_BLOCKS_COST == 20000
BundleSize == 1000
BURIED_CONFIRMATIONS == 100
HeaderBatch == 2000

\* ------------------------------------------------------ Option<T>
None == <<>>
Some(x) == <<x>>
UnwrapOr(o, d) == IF o = <<>> THEN d ELSE o[1]
CheckedSub_Unchecked(a, b) == <<a - b>>
CheckedSub(a, b) == IF a >= b THEN <<a - b>> ELSE <<>>
MinOf(a, b) == IF a < b THEN a ELSE b

\* --------------------------------------------- the wallet's scripts
\* database.get_path_from_script_pubkey: (script type, child index)
PathOf(script) ==
    CASE script = "e0" -> <<"External", 0>>
      [] script = "e1" -> <<"External", 1>>
      [] script = "e2" -> <<"External", 2>>
      [] script = "i1" -> <<"Internal", 1>>
      [] OTHER -> <<>>
AllScripts == {"e0", "e1", "e2", "i1"}
IsMine(script) == script \in AllScripts
ScriptTypes == {"External", "Internal"}

\* ------------------------------------------------- the transactions
\* input: the previous outpoints spent; output: value and script_pubkey
TxIds == {"tA", "tB", "tC", "tD"}
TxInput(t) ==
    CASE t = "tA" -> << <<"x1", 1>> >>
      [] t = "tB" -> << <<"tA", 1>> >>
      [] t = "tC" -> << <<"x2", 1>> >>
      [] t = "tD" -> << <<"x3", 1>> >>
TxOutput(t) ==
    CASE t = "tA" -> << [value |-> 5, script |-> "e0"] >>
      [] t = "tB" -> << [value |-> 4, script |-> "f"] >>
      [] t = "tC" -> << [value |-> 3, script |-> "i1"], [value |-> 2, script |-> "e1"] >>
      [] t = "tD" -> << [value |-> 7, script |-> "e2"] >>

\* ------------------------------------------------------- the blocks
\* "none" stands for a block that holds nothing of the wallet
BlockTxs(b) ==
    CASE b = "bA" -> <<"tA">>
      [] b = "bB" -> <<"tB">>
      [] b = "bC" -> <<"tC">>
      [] b = "bD" -> <<"tD">>
      [] b = "bBD" -> <<"tB", "tD">>
      [] OTHER -> <<>>
TxsOf(b) == {BlockTxs(b)[k] : k \in 1..Len(BlockTxs(b))}

\* BIP158 basic filter: the scripts of the outputs and of the spent outputs
FilterScripts(b) ==
    UNION {
        {TxOutput(t)[k].script : k \in 1..Len(TxOutput(t))}
        \cup {TxOutput(TxInput(t)[k][1])[TxInput(t)[k][2]].script :
                k \in {j \in 1..Len(TxInput(t)) : TxInput(t)[j][1] \in TxIds}}
        : t \in TxsOf(b)}
MatchAny(b, scripts) == FilterScripts(b) \cap scripts # {}

\* ------------------------------------------- the chains a peer serves
\* the heights at which a block of interest can stand
Slots == {950, 1940, 1970, 1990}
NoBlocks == [h \in Slots |-> "none"]
Chain(c) ==
    CASE c = "G" -> [tip |-> 0, work |-> 0, blk |-> NoBlocks]
      [] c = "K0" -> [tip |-> 1500, work |-> 1,
                      blk |-> [NoBlocks EXCEPT ![950] = "bC"]]
      [] c = "K1" -> [tip |-> 1999, work |-> 2,
                      blk |-> [NoBlocks EXCEPT ![950] = "bC", ![1940] = "bA", ![1990] = "bBD"]]
      [] c = "K2" -> [tip |-> 1999, work |-> 3,
                      blk |-> [NoBlocks EXCEPT ![950] = "bC", ![1940] = "bA", ![1970] = "bD"]]
      [] c = "K3" -> [tip |-> 2040, work |-> 3,
                      blk |-> [NoBlocks EXCEPT ![950] = "bC", ![1940] = "bA", ![1990] = "bBD"]]
      [] c = "K4" -> [tip |-> 1999, work |-> 3,
                      blk |-> [NoBlocks EXCEPT ![950] = "bC", ![1940] = "bA", ![1990] = "bB"]]
      [] c = "K5" -> [tip |-> 4100, work |-> 4,
                      blk |-> [NoBlocks EXCEPT ![950] = "bC", ![1940] = "bA"]]
PeerChains == {"K0", "K1", "K2", "K3", "K4"}

\* the height up to which two of these chains hold the same headers
CommonHeight(a, b) ==
    IF a = b THEN Chain(a).tip
    ELSE IF "G" \in {a, b} THEN 0
    ELSE IF "K0" \in {a, b} THEN 1500
    ELSE IF "K2" \in {a, b} THEN 1959
    ELSE IF "K4" \in {a, b} THEN 1979
    ELSE 1999

\* what the designated peer can hold: a chain and its mempool, in iter_txs order
Worlds ==
    {<<"K0", <<>>>>, <<"K0", <<"tA">>>>, <<"K0", <<"tB", "tA">>>>,
     <<"K1", <<>>>>, <<"K2", <<>>>>, <<"K2", <<"tB">>>>,
     <<"K3", <<>>>>, <<"K4", <<>>>>, <<"K4", <<"tD">>>>}
\* the chains the peer can turn to from chain c
ChainSucc(c) ==
    CASE c = "K0" -> {"K0", "K1"}
      [] c = "K1" -> {"K2", "K3", "K4"}
      [] c = "K2" -> {"K1", "K2", "K4"}
      [] c = "K3" -> {"K4"}
      [] c = "K4" -> {"K3", "K4"}
      [] c = "K5" -> {"K5"}
SkipChoices == {0, 3000}

\* ---------------------------------------------------------- bundles
Bundles == 0..4
BundleOf(h) == h \div BundleSize
BundleSlots(c, i) == {h \in Slots : BundleOf(h) = i /\ h <= Chain(c).tip}
\* the filter-header checkpoint of bundle i on chain c
Checkpoint(c, i) ==
    <<MinOf(Chain(c).tip, (i + 1) * BundleSize - 1),
      {<<h, Chain(c).blk[h]>> : h \in BundleSlots(c, i)}>>
RECURSIVE SortedSeq(_)
SortedSeq(S) ==
    IF S = {} THEN <<>>
    ELSE LET m == CHOOSE x \in S : \A y \in S : x <= y
         IN <<m>> \o SortedSeq(S \ {m})

VARIABLES
    \* the designated peer (peers[0]) and the configuration
    peerChain, mempool, startHeight, numPeers, skip_blocks,
    \* ChainStore and the coordinator's persisted bundle records
    headers, fullBlocks, bundles,
    \* the wallet database
    dbTxs, dbRaw, dbUtxos, dbLastIndex,
    \* one setup call
    pc, loc, hdrQ, snapshot, last_synced_block, synced_bundles, sink, wk,
    replayQ, internal_max_deriv, external_max_deriv, errAt, errThread,
    \* history
    setups, failures, matchedTrue, doneCalls, everSaved, observed, replaced, before,
    lastOk, firstFailed, directWrites

envVars == <<peerChain, mempool, startHeight, numPeers, skip_blocks>>
storeVars == <<headers, fullBlocks, bundles>>
dbVars == <<dbTxs, dbRaw, dbUtxos, dbLastIndex>>
syncVars == <<hdrQ, snapshot, last_synced_block, synced_bundles, wk>>
replayVars == <<replayQ, internal_max_deriv, external_max_deriv>>
joinVars == <<errThread, firstFailed>>
histVars == <<setups, failures, matchedTrue, doneCalls, everSaved, observed, replaced, before, lastOk>>
vars == <<envVars, storeVars, dbVars, pc, loc, syncVars, sink, replayVars, errAt, histVars, joinVars,
          directWrites>>

\* the wallet database (before: as the call found it), and what setup leaves behind
WalletDb == [dbTxs |-> dbTxs, dbRaw |-> dbRaw, dbUtxos |-> dbUtxos, dbLastIndex |-> dbLastIndex]
Persisted == [headers |-> headers, fullBlocks |-> fullBlocks, bundles |-> bundles,
              dbTxs |-> dbTxs, dbUtxos |-> dbUtxos, dbLastIndex |-> dbLastIndex]

Peers == 1..MaxPeers
NoLoc == [initial_height |-> 0, expected_bundles_to_sync |-> 0, headers_cost |-> 0,
          filters_cost |-> 0, total_cost |-> 0, synced_height |-> 0, buried_height |-> 0]
IdleWorker == [pc |-> "off", index |-> 0, queue |-> <<>>, n |-> 0]
NoBundle == [status |-> "Init", ckpt |-> <<>>]

\* a new instance over an empty storage directory and an empty wallet
\* database; start_height is the height of the version message of peers[0]
InitWith(chain, txs, start_height) ==
    /\ peerChain = chain
    /\ mempool = txs
    /\ startHeight = start_height
    /\ numPeers \in 1..MaxPeers
    /\ skip_blocks \in SkipChoices
    /\ headers = "G"
    /\ fullBlocks = NoBlocks
    /\ bundles = [i \in Bundles |-> NoBundle]
    /\ dbTxs = [t \in TxIds |-> None]
    /\ dbRaw = {}
    /\ dbUtxos = {}
    /\ dbLastIndex = [st \in ScriptTypes |-> None]
    /\ pc = "idle"
    /\ loc = NoLoc
    /\ hdrQ = <<>>
    /\ snapshot = None
    /\ last_synced_block = 0
    /\ synced_bundles = 0
    /\ sink = <<>>
    /\ wk = [w \in Peers |-> IdleWorker]
    /\ replayQ = <<>>
    /\ internal_max_deriv = None
    /\ external_max_deriv = None
    /\ errAt = "none"
    /\ errThread = 0
    /\ firstFailed = 0
    /\ directWrites = {}
    /\ setups = 0
    /\ failures = 0
    /\ matchedTrue = {}
    /\ doneCalls = [i \in Bundles |-> 0]
    /\ everSaved = {}
    /\ observed = {}
    /\ replaced = {}
    /\ before = None
    /\ lastOk = None

Init == \E w \in Worlds : InitWith(w[1], w[2], Chain(w[1]).tip)

\* the peer's chain has grown since it sent its version message
InitGrown == InitWith("K5", <<>>, Chain("K0").tip)

\* ------------------------------------------------------ the progress sink
\* cost / total_cost * 100.0 is kept as the exact ratio <<cost, total_cost>>, and
\* 100.0 as <<1, 1>>; f32 arithmetic rounds but keeps the order of two ratios
Percent(cost, total_cost) == <<cost, total_cost>>
Hundred == <<1, 1>>
PctLeq(a, b) == IF a[2] = b[2] THEN a[1] <= b[1] ELSE a[1] * b[2] <= b[1] * a[2]
Update(pct, msg) == sink' = Append(sink, [pct |-> pct, msg |-> msg])

\* ------------------------------------------------------------ the peer
\* the peer's chain or mempool changes between two setup calls
PeerChanges ==
    /\ pc = "idle"
    /\ setups < MaxSetups
    /\ \E w \in Worlds :
         /\ <<peerChain, mempool>> # w
         /\ w[1] \in ChainSucc(peerChain)
         /\ peerChain' = w[1]
         /\ mempool' = w[2]
    /\ lastOk' = None
    /\ UNCHANGED <<directWrites, joinVars, startHeight, numPeers, skip_blocks, storeVars, dbVars, pc, loc,
                   syncVars, sink, replayVars, errAt,
                   setups, failures, matchedTrue, doneCalls, everSaved, observed, replaced, before>>

\* ------------------------------------------------- setup, up to the spawn
\* CFSync.pruned_bundles: the bundles at or above skip_blocks already Pruned
pruned_bundles ==
    Cardinality({i \in Bundles : i >= skip_blocks \div BundleSize
                                 /\ bundles[i].status = "Pruned"})
total_bundles ==
    LET x == CheckedSub(startHeight, skip_blocks)
    IN (IF x = None THEN 0 ELSE x[1] \div BundleSize) + 1
expected_bundles_to_sync == UnwrapOr(CheckedSub(total_bundles, pruned_bundles), 0)

\* the heights sync_headers reports: the end of each batch of headers received
RECURSIVE HeaderBatches(_, _)
HeaderBatches(from, tip) ==
    IF from >= tip THEN <<>>
    ELSE <<MinOf(from + HeaderBatch, tip)>> \o HeaderBatches(MinOf(from + HeaderBatch, tip), tip)

SetupStart ==
    /\ pc = "idle"
    /\ setups < MaxSetups
    /\ setups' = setups + 1
    /\ LET initial_height == Chain(headers).tip
           headers_cost == UnwrapOr(CheckedSub(startHeight, initial_height), 0) * SYNC_HEADERS_COST
           filters_cost == expected_bundles_to_sync * SYNC_FILTERS_COST
       IN loc' = [NoLoc EXCEPT !.initial_height = initial_height,
                               !.expected_bundles_to_sync = expected_bundles_to_sync,
                               !.headers_cost = headers_cost,
                               !.filters_cost = filters_cost,
                               !.total_cost = headers_cost + filters_cost + PROCESS_BLOCKS_COST]
    /\ hdrQ' = HeaderBatches(CommonHeight(headers, peerChain), Chain(peerChain).tip)
    /\ before' = Some(WalletDb)
    /\ pc' = "sync_headers"
    /\ UNCHANGED <<directWrites, joinVars, envVars, storeVars, dbVars, snapshot, last_synced_block, synced_bundles,
                   wk, sink, replayVars, errAt,
                   failures, matchedTrue, doneCalls, everSaved, observed, replaced, lastOk>>

\* the closure sync_headers calls with each new height
HeaderProgress ==
    /\ pc = "sync_headers"
    /\ hdrQ # <<>>
    /\ LET new_height == Head(hdrQ)
           local_headers_cost ==
               UnwrapOr(CheckedSub(new_height, loc.initial_height), 0) * SYNC_HEADERS_COST
       IN Update(Percent(local_headers_cost, loc.total_cost), "headers")
    /\ hdrQ' = Tail(hdrQ)
    /\ UNCHANGED <<directWrites, joinVars, envVars, storeVars, dbVars, pc, loc, snapshot, last_synced_block,
                   synced_bundles, wk, replayVars, errAt, histVars>>

\* sync_headers returns the snapshot of the headers received, if any
SyncHeadersReturn ==
    /\ pc = "sync_headers"
    /\ hdrQ = <<>>
    /\ snapshot' = IF Chain(peerChain).tip > CommonHeight(headers, peerChain)
                   THEN Some(peerChain) ELSE None
    /\ pc' = "snapshot"
    /\ UNCHANGED <<directWrites, joinVars, envVars, storeVars, dbVars, loc, hdrQ, last_synced_block,
                   synced_bundles, wk, sink, replayVars, errAt, histVars>>

\* fault: a snapshot of equal work is applied too
SnapshotWins_OrEqual(snap_work, live_work) == snap_work >= live_work
\* if snapshot.work() > self.headers.work() { apply_snapshot }
SnapshotWins(snap_work, live_work) == snap_work > live_work
ApplySnapshot ==
    /\ pc = "snapshot"
    /\ headers' = IF snapshot # None /\ SnapshotWins(Chain(snapshot[1]).work, Chain(headers).work)
                  THEN snapshot[1] ELSE headers
    /\ snapshot' = None
    /\ pc' = "prepare"
    /\ UNCHANGED <<directWrites, joinVars, envVars, fullBlocks, bundles, dbVars, loc, hdrQ, last_synced_block,
                   synced_bundles, wk, sink, replayVars, errAt, histVars>>

\* CFSync.prepare_sync: a bundle stays Pruned while its checkpoint stands
PreparedBundle(i) ==
    IF i > BundleOf(Chain(headers).tip) THEN bundles[i]
    ELSE IF bundles[i].status = "Pruned" /\ bundles[i].ckpt = Checkpoint(headers, i)
    THEN bundles[i]
    ELSE [status |-> IF (i + 1) * BundleSize - 1 > Chain(headers).tip THEN "Tip" ELSE "Init",
          ckpt |-> Checkpoint(headers, i)]

BuriedHeight_OneMore(synced_height) ==
    UnwrapOr(CheckedSub(synced_height + 1, BURIED_CONFIRMATIONS), 0)

BuriedHeight(synced_height) ==
    UnwrapOr(CheckedSub(synced_height, BURIED_CONFIRMATIONS), 0)

PrepareSync ==
    /\ pc = "prepare"
    /\ LET synced_height == Chain(headers).tip
       IN /\ loc' = [loc EXCEPT !.synced_height = synced_height,
                                !.buried_height = BuriedHeight(synced_height)]
          /\ last_synced_block' = synced_height
    /\ bundles' = [i \in Bundles |-> PreparedBundle(i)]
    /\ synced_bundles' = 0
    /\ pc' = "spawn"
    /\ UNCHANGED <<directWrites, joinVars, envVars, headers, fullBlocks, dbVars, hdrQ, snapshot, wk, sink,
                   replayVars, errAt, histVars>>

\* one thread per peer, all on the same coordinator
SpawnWorkers_Early ==
    /\ pc = "sync_headers"
    /\ wk' = [w \in Peers |-> IF w <= numPeers THEN [IdleWorker EXCEPT !.pc = "next"]
                                               ELSE IdleWorker]
    /\ pc' = "workers"
    /\ UNCHANGED <<directWrites, joinVars, envVars, storeVars, dbVars, loc, hdrQ, snapshot, last_synced_block,
                   synced_bundles, sink, replayVars, errAt, histVars>>

SpawnWorkers ==
    /\ pc = "spawn"
    /\ wk' = [w \in Peers |-> IF w <= numPeers THEN [IdleWorker EXCEPT !.pc = "next"]
                                               ELSE IdleWorker]
    /\ pc' = "workers"
    /\ UNCHANGED <<directWrites, joinVars, envVars, storeVars, dbVars, loc, hdrQ, snapshot, last_synced_block,
                   synced_bundles, sink, replayVars, errAt, histVars>>

\* ------------------------------------------------- the worker threads
\* CFSync.capture_thread_for_sync, step 1: claim the next Init-or-Tip bundle
Claimable ==
    {i \in Bundles : /\ i <= BundleOf(Chain(headers).tip)
                     /\ i >= skip_blocks \div BundleSize
                     /\ bundles[i].status \in {"Init", "Tip"}}
\* fault: the claim leaves the bundle claimable
ClaimedStatus_Unmarked == "Init"
ClaimedStatus == "Waiting"
ClaimBundle(w) ==
    /\ pc = "workers"
    /\ wk[w].pc = "next"
    /\ IF Claimable = {}
       THEN /\ wk' = [wk EXCEPT ![w] = [IdleWorker EXCEPT !.pc = "finished"]]
            /\ UNCHANGED bundles
       ELSE LET i == CHOOSE x \in Claimable : \A y \in Claimable : x <= y
            IN /\ bundles' = [bundles EXCEPT ![i].status = ClaimedStatus]
               /\ wk' = [wk EXCEPT ![w] = [pc |-> "filters", index |-> i,
                                           queue |-> SortedSeq({h \in BundleSlots(headers, i) :
                                               Chain(headers).blk[h] # "none" \/ fullBlocks[h] # "none"}),
                                           n |-> 0]]
    /\ UNCHANGED <<directWrites, joinVars, envVars, headers, fullBlocks, dbVars, pc, loc, hdrQ, snapshot,
                   last_synced_block, synced_bundles, sink, replayVars, errAt, histVars>>

\* fault: the height is stored without the comparison
LowerTo_Overwrite(current, block_height) == block_height
\* the critical section of on_match, under the last_synced_block mutex
LowerTo(current, block_height) ==
    IF block_height < current THEN block_height ELSE current

\* the on_match closure, called with the filter of the block at the next height
OnMatchReturn_IgnoreSaved(block_hash, block_height) == MatchAny(block_hash, AllScripts)

\* The value the on_match closure returns for a block of the header chain.
OnMatchReturn(block_hash, block_height) ==
    LET saved_correct_block == fullBlocks[block_height] = block_hash
    IN IF ~MatchAny(block_hash, AllScripts) THEN FALSE
       ELSE IF saved_correct_block THEN FALSE
       ELSE TRUE

OnMatch(w) ==
    /\ pc = "workers"
    /\ wk[w].pc = "filters"
    /\ wk[w].queue # <<>>
    /\ LET block_height == Head(wk[w].queue)
           block_hash == Chain(headers).blk[block_height]
       IN IF ~OnMatchReturn(block_hash, block_height)
          THEN /\ wk' = [wk EXCEPT ![w].queue = Tail(@)]
               /\ UNCHANGED <<last_synced_block, matchedTrue>>
          ELSE /\ last_synced_block' = LowerTo(last_synced_block, block_height)
               /\ matchedTrue' = matchedTrue \cup {block_height}
               /\ wk' = [wk EXCEPT ![w].pc = "download"]
    /\ UNCHANGED <<directWrites, joinVars, envVars, storeVars, dbVars, pc, loc, hdrQ, snapshot, synced_bundles,
                   sink, replayVars, errAt,
                   setups, failures, doneCalls, everSaved, observed, replaced, before, lastOk>>

\* on_match returned true: the block is fetched from the peer and persisted
DownloadBlock(w) ==
    /\ pc = "workers"
    /\ wk[w].pc = "download"
    /\ LET h == Head(wk[w].queue)
           b == Chain(headers).blk[h]
       IN /\ fullBlocks' = [fullBlocks EXCEPT ![h] = b]
          /\ everSaved' = everSaved \cup {<<h, b>>}
          /\ replaced' = IF fullBlocks[h] = "none" THEN replaced
                         ELSE replaced \cup {<<h, fullBlocks[h], b>>}
    /\ wk' = [wk EXCEPT ![w].pc = "filters", ![w].queue = Tail(@)]
    /\ UNCHANGED <<directWrites, joinVars, envVars, headers, bundles, dbVars, pc, loc, hdrQ, snapshot,
                   last_synced_block, synced_bundles, sink, replayVars, errAt,
                   setups, failures, matchedTrue, doneCalls, observed, before, lastOk>>

\* the range is processed: the bundle is marked Pruned and on_bundle_done is
\* called; its first statement is synced_bundles.fetch_add(1)
BundleDone(w) ==
    /\ pc = "workers"
    /\ wk[w].pc = "filters"
    /\ wk[w].queue = <<>>
    /\ bundles' = [bundles EXCEPT ![wk[w].index].status = "Pruned"]
    /\ doneCalls' = [doneCalls EXCEPT ![wk[w].index] = @ + 1]
    /\ synced_bundles' = synced_bundles + 1
    /\ wk' = [wk EXCEPT ![w].pc = "report", ![w].n = synced_bundles]
    /\ UNCHANGED <<directWrites, joinVars, envVars, headers, fullBlocks, dbVars, pc, loc, hdrQ, snapshot,
                   last_synced_block, sink, replayVars, errAt,
                   setups, failures, matchedTrue, everSaved, observed, replaced, before, lastOk>>

\* the rest of on_bundle_done: lock the progress sink and update it
BundleProgress(w) ==
    /\ pc = "workers"
    /\ wk[w].pc = "report"
    /\ LET local_filters_cost == wk[w].n * SYNC_FILTERS_COST
       IN Update(Percent(loc.headers_cost + local_filters_cost, loc.total_cost), "filters")
    /\ wk' = [wk EXCEPT ![w] = [IdleWorker EXCEPT !.pc = "next"]]
    /\ UNCHANGED <<directWrites, joinVars, envVars, storeVars, dbVars, pc, loc, hdrQ, snapshot, last_synced_block,
                   synced_bundles, replayVars, errAt, histVars>>

\* a peer error aborts the bundle, which goes back to the pool; the thread
\* ends with the error. failures counts the setup calls that fail
WorkerFails(w) ==
    /\ pc = "workers"
    /\ wk[w].pc = "filters"
    /\ failures < MaxFailures
    /\ bundles' = [bundles EXCEPT ![wk[w].index].status = "Init"]
    /\ wk' = [wk EXCEPT ![w] = [IdleWorker EXCEPT !.pc = "failed"]]
    /\ firstFailed' = IF firstFailed = 0 THEN w ELSE firstFailed
    /\ UNCHANGED <<envVars, headers, fullBlocks, dbVars, pc, loc, hdrQ, snapshot,
                   last_synced_block, synced_bundles, sink, replayVars, errAt, errThread,
                   directWrites,
                   setups, failures, matchedTrue, doneCalls, everSaved, observed, replaced,
                   before, lastOk>>

\* fault: the threads are joined from the last one spawned
FirstJoined_Last(failed) == CHOOSE w \in failed : \A v \in failed : v <= w
\* for t in threads { t.join().unwrap()?; }: of the threads that failed, the
\* one joined first
FirstJoined(failed) == CHOOSE w \in failed : \A v \in failed : w <= v
\* the join loop and the "Processing" update
JoinFails_Never(failed) == FALSE

\* t.join().unwrap()?: the join loop returns the error of a failed thread.
JoinFails(failed) == failed # {}

JoinWorkers ==
    /\ pc = "workers"
    /\ \A w \in 1..numPeers : wk[w].pc \in {"finished", "failed"}
    /\ LET failed == {w \in 1..numPeers : wk[w].pc = "failed"}
       IN IF JoinFails(failed)
          THEN /\ pc' = "err"
               /\ errAt' = "join"
               /\ errThread' = FirstJoined(failed)
               /\ failures' = failures + 1
               /\ UNCHANGED sink
          ELSE /\ Update(Percent(loc.headers_cost + loc.filters_cost, loc.total_cost),
                         "processing")
               /\ pc' = "delete"
               /\ UNCHANGED <<errAt, errThread, failures>>
    /\ wk' = [w \in Peers |-> IdleWorker]
    /\ UNCHANGED <<envVars, storeVars, dbVars, loc, hdrQ, snapshot, last_synced_block,
                   synced_bundles, replayVars, firstFailed, directWrites,
                   setups, matchedTrue, doneCalls, everSaved, observed, replaced, before, lastOk>>

\* ------------------------------------------------- the wallet update
\* fault: a transaction without a height survives the deletion
KeepsTx_Unconfirmed(height) == height = None \/ height[1] < last_synced_block
\* fault: a transaction at last_synced_block itself survives the deletion
KeepsTx_AtHeight(height) == height # None /\ height[1] <= last_synced_block

\* delete all txs newer than last_synced_block: a transaction stays only if
\* it has a height below last_synced_block (del_tx keeps the raw transaction)
KeepsTx_Confirmed(height) == height # None
KeepsTx(height) == height # None /\ height[1] < last_synced_block
DeleteTxs ==
    /\ pc = "delete"
    /\ dbTxs' = [t \in TxIds |->
                   IF dbTxs[t] # None /\ KeepsTx(dbTxs[t][1].height) THEN dbTxs[t] ELSE None]
    /\ pc' = "mempool"
    /\ UNCHANGED <<directWrites, joinVars, envVars, storeVars, dbRaw, dbUtxos, dbLastIndex, loc, syncVars, sink,
                   replayVars, errAt, histVars>>

\* iter_full_blocks in ascending height, then the mempool's iter_txs
RECURSIVE BlocksQueue(_)
BlocksQueue(hs) ==
    IF hs = <<>> THEN <<>>
    ELSE [k \in 1..Len(BlockTxs(fullBlocks[Head(hs)])) |->
             <<Some(Head(hs)), BlockTxs(fullBlocks[Head(hs)])[k]>>]
         \o BlocksQueue(Tail(hs))
ReplayOrder_MempoolFirst ==
    [k \in 1..Len(mempool) |-> <<None, mempool[k]>>]
    \o BlocksQueue(SortedSeq({h \in Slots : fullBlocks[h] # "none"}))

ReplayOrder ==
    BlocksQueue(SortedSeq({h \in Slots : fullBlocks[h] # "none"}))
    \o [k \in 1..Len(mempool) |-> <<None, mempool[k]>>]

\* first_peer.ask_for_mempool(), and the start of the replay
AskMempool ==
    /\ pc = "mempool"
    /\ replayQ' = ReplayOrder
    /\ internal_max_deriv' = None
    /\ external_max_deriv' = None
    /\ pc' = "replay"
    /\ UNCHANGED <<directWrites, joinVars, envVars, storeVars, dbVars, loc, syncVars, sink, errAt, histVars>>

\* database.get_previous_output: known once the raw transaction is stored
PreviousOutput(op) ==
    IF op[1] \in dbRaw THEN Some(TxOutput(op[1])[op[2]]) ELSE None

RECURSIVE SumValues(_, _)
SumValues(outs, keep) ==
    IF outs = <<>> THEN 0
    ELSE (IF Head(outs) \in keep THEN Head(outs)[2].value ELSE 0) + SumValues(Tail(outs), keep)
\* <<index, TxOut>> pairs
Indexed(seq) == [k \in 1..Len(seq) |-> <<k, seq[k]>>]
Range(seq) == {seq[k] : k \in 1..Len(seq)}

\* the running maxima over the outputs of one transaction, in output order
NewMax(child, max_deriv) == max_deriv = None \/ child > UnwrapOr(max_deriv, 0)
RECURSIVE MaxDeriv(_, _)
MaxDeriv(outs, m) ==
    IF outs = <<>> THEN m
    ELSE LET path == PathOf(Head(outs).script)
         IN IF path = <<>> THEN MaxDeriv(Tail(outs), m)
            ELSE IF path[1] = "Internal" /\ NewMax(path[2], m.internal)
            THEN MaxDeriv(Tail(outs), [m EXCEPT !.internal = Some(path[2])])
            ELSE IF path[1] = "External" /\ NewMax(path[2], m.external)
            THEN MaxDeriv(Tail(outs), [m EXCEPT !.external = Some(path[2])])
            ELSE MaxDeriv(Tail(outs), m)

\* the TransactionDetails process_tx stores for tx at height
Details(tx, height) ==
    LET prevs == [k \in 1..Len(TxInput(tx)) |-> <<k, PreviousOutput(TxInput(tx)[k])>>]
        known == {p \in Range(prevs) : p[2] # None}
        mine == {p \in known : IsMine(p[2][1].script)}
        unwrapped == [k \in 1..Len(prevs) |-> <<k, UnwrapOr(prevs[k][2], [value |-> 0])>>]
        inputs_sum == SumValues(unwrapped, {<<p[1], p[2][1]>> : p \in known})
        outgoing == SumValues(unwrapped, {<<p[1], p[2][1]>> : p \in mine})
        outs == Indexed(TxOutput(tx))
        outputs_sum == SumValues(outs, Range(outs))
        incoming == SumValues(outs, {o \in Range(outs) : PathOf(o[2].script) # <<>>})
    IN [received |-> incoming, sent |-> outgoing, height |-> height, timestamp |-> 0,
        fees |-> UnwrapOr(CheckedSub(inputs_sum, outputs_sum), 0)]
SpentUtxos(tx) ==
    {TxInput(tx)[k] : k \in {j \in 1..Len(TxInput(tx)) :
        /\ PreviousOutput(TxInput(tx)[j]) # None
        /\ IsMine(PreviousOutput(TxInput(tx)[j])[1].script)}}
NewUtxos(tx) ==
    {<<tx, k>> : k \in {j \in 1..Len(TxOutput(tx)) : PathOf(TxOutput(tx)[j].script) # <<>>}}
Stores(details) == details.received > 0 \/ details.sent > 0

\* process_tx on the next transaction of the replay: one batch, committed
ProcessTx ==
    /\ pc = "replay"
    /\ replayQ # <<>>
    /\ LET height == Head(replayQ)[1]
           tx == Head(replayQ)[2]
           details == Details(tx, height)
           m == MaxDeriv(TxOutput(tx), [internal |-> internal_max_deriv,
                                        external |-> external_max_deriv])
       IN /\ dbUtxos' = (dbUtxos \ SpentUtxos(tx)) \cup NewUtxos(tx)
          /\ IF Stores(details)
             THEN /\ dbTxs' = [dbTxs EXCEPT ![tx] = Some(details)]
                  /\ dbRaw' = dbRaw \cup {tx}
             ELSE UNCHANGED <<dbTxs, dbRaw>>
          /\ internal_max_deriv' = m.internal
          /\ external_max_deriv' = m.external
          /\ observed' = observed \cup
                {PathOf(TxOutput(tx)[k].script) : k \in {j \in 1..Len(TxOutput(tx)) :
                                                     PathOf(TxOutput(tx)[j].script) # <<>>}}
    /\ replayQ' = Tail(replayQ)
    /\ UNCHANGED <<directWrites, joinVars, envVars, storeVars, dbLastIndex, pc, loc, syncVars, sink, errAt,
                   setups, failures, matchedTrue, doneCalls, everSaved, replaced, before, lastOk>>

\* fault: the highest index seen is stored instead of the one after it
FirstNew_Seen(max_deriv) == IF max_deriv = None THEN 0 ELSE max_deriv[1]
\* the first index not seen: max_deriv.map(|x| x + 1).unwrap_or(0)
FirstNew(max_deriv) == IF max_deriv = None THEN 0 ELSE max_deriv[1] + 1
NextIndex(current, max_deriv) ==
    IF FirstNew(max_deriv) > UnwrapOr(current, 0) THEN Some(FirstNew(max_deriv)) ELSE current

\* database.set_last_index is called on the database itself, outside any batch
SetLastIndexCalled(current, max_deriv) ==
    IF NextIndex(current, max_deriv) # current
    THEN directWrites \cup {"set_last_index"} ELSE directWrites

UpdateExternalIndex ==
    /\ pc = "replay"
    /\ replayQ = <<>>
    /\ dbLastIndex' = [dbLastIndex EXCEPT
                         !["External"] = NextIndex(@, external_max_deriv)]
    /\ directWrites' = SetLastIndexCalled(dbLastIndex["External"], external_max_deriv)
    /\ pc' = "index_int"
    /\ UNCHANGED <<joinVars, envVars, storeVars, dbTxs, dbRaw, dbUtxos, loc, syncVars, sink,
                   replayVars, errAt, histVars>>

UpdateInternalIndex ==
    /\ pc = "index_int"
    /\ dbLastIndex' = [dbLastIndex EXCEPT
                         !["Internal"] = NextIndex(@, internal_max_deriv)]
    /\ directWrites' = SetLastIndexCalled(dbLastIndex["Internal"], internal_max_deriv)
    /\ pc' = "prune"
    /\ UNCHANGED <<joinVars, envVars, storeVars, dbTxs, dbRaw, dbUtxos, loc, syncVars, sink,
                   replayVars, errAt, histVars>>

\* self.headers.delete_blocks_until(buried_height)
\* ChainStore::delete_blocks_until: the full blocks it deletes.
DeletesBlock(height, until) == height < until

DeleteBlocksUntil ==
    /\ pc = "prune"
    /\ fullBlocks' = [h \in Slots |-> IF DeletesBlock(h, loc.buried_height)
                                       THEN "none" ELSE fullBlocks[h]]
    /\ pc' = "done"
    /\ UNCHANGED <<directWrites, joinVars, envVars, headers, bundles, dbVars, loc, syncVars, sink, replayVars,
                   errAt, histVars>>

\* fault: setup returns Ok without the final update
EmitDone_Silent ==
    /\ pc = "done"
    /\ pc' = "ok"
    /\ UNCHANGED <<directWrites, joinVars, envVars, storeVars, dbVars, loc, syncVars, sink, replayVars, errAt, histVars>>

\* progress_update.update(100.0, "Done"), then Ok(())
EmitDone ==
    /\ pc = "done"
    /\ Update(Hundred, "done")
    /\ pc' = "ok"
    /\ UNCHANGED <<directWrites, joinVars, envVars, storeVars, dbVars, loc, syncVars, replayVars, errAt, histVars>>

\* a `?` returns the error of the step setup is at
FalliblePcs == {"sync_headers", "snapshot", "prepare", "delete", "mempool", "replay",
                "index_int", "prune"}
SetupFails ==
    /\ pc \in FalliblePcs
    /\ failures < MaxFailures
    /\ failures' = failures + 1
    /\ pc' = "err"
    /\ errAt' = pc
    /\ UNCHANGED <<directWrites, joinVars, envVars, storeVars, dbVars, loc, syncVars, sink, replayVars,
                   setups, matchedTrue, doneCalls, everSaved, observed, replaced, before, lastOk>>

\* setup has returned; the caller goes on
Return ==
    /\ pc \in {"ok", "err"}
    /\ pc' = "idle"
    /\ lastOk' = IF pc = "ok" THEN Some(Persisted) ELSE None
    /\ loc' = NoLoc
    /\ hdrQ' = <<>>
    /\ snapshot' = None
    /\ last_synced_block' = 0
    /\ synced_bundles' = 0
    /\ sink' = <<>>
    /\ wk' = [w \in Peers |-> IdleWorker]
    /\ replayQ' = <<>>
    /\ internal_max_deriv' = None
    /\ external_max_deriv' = None
    /\ errAt' = "none"
    /\ errThread' = 0
    /\ firstFailed' = 0
    /\ directWrites' = {}
    /\ matchedTrue' = {}
    /\ doneCalls' = [i \in Bundles |-> 0]
    /\ observed' = {}
    /\ replaced' = {}
    /\ before' = None
    /\ UNCHANGED <<envVars, storeVars, dbVars, setups, failures, everSaved>>

\* the steps of setup calls
SetupNext ==
    \/ SetupStart
    \/ HeaderProgress
    \/ SyncHeadersReturn
    \/ ApplySnapshot
    \/ PrepareSync
    \/ SpawnWorkers
    \/ \E w \in Peers : ClaimBundle(w)
    \/ \E w \in Peers : OnMatch(w)
    \/ \E w \in Peers : DownloadBlock(w)
    \/ \E w \in Peers : BundleDone(w)
    \/ \E w \in Peers : BundleProgress(w)
    \/ \E w \in Peers : WorkerFails(w)
    \/ JoinWorkers
    \/ DeleteTxs
    \/ AskMempool
    \/ ProcessTx
    \/ UpdateExternalIndex
    \/ UpdateInternalIndex
    \/ DeleteBlocksUntil
    \/ EmitDone
    \/ SetupFails
    \/ Return

Next == PeerChanges \/ SetupNext

Spec == Init /\ [][Next]_vars

\* every call runs against the chain and mempool the peer had on connecting
SpecStatic == Init /\ [][SetupNext]_vars

\* the calls against a peer whose chain is longer than its start_height
SpecGrown == InitGrown /\ [][SetupNext]_vars

\* ------------------------------------------------------------ claims
\* C1: during one setup call the percentages passed to the progress sink
\* (header updates, per-bundle updates, "Processing", "Done") never decrease.
C1_ProgressMonotone ==
    \A i \in 1..Len(sink) : \A j \in 1..Len(sink) :
        i < j => PctLeq(sink[i].pct, sink[j].pct)

\* C2: when setup returns Ok the last update delivered is (100, "Done"); a
\* setup that returns an error (header sync, filter sync, join, deletion,
\* replay, index update, pruning) has not emitted (100, "Done").
C2_DoneOnlyOnSuccess ==
    /\ pc = "ok" => /\ sink # <<>>
                    /\ sink[Len(sink)] = [pct |-> Hundred, msg |-> "done"]
    /\ pc = "err" => \A i \in 1..Len(sink) : sink[i].msg # "done" /\ sink[i].pct # Hundred
\* a call that succeeds after an earlier call failed, with bundles reported
C2_Witness ==
    /\ pc = "ok"
    /\ failures > 0
    /\ sink[Len(sink)].msg = "done"
    /\ \E i \in 1..Len(sink) : sink[i].msg = "filters"

\* C3: two workers of one setup call never hold the same bundle, and
\* on_bundle_done(index) is called at most once per bundle in a sync cycle.
Holding == {"filters", "download", "report"}
C3_BundleClaimedOnce ==
    /\ \A w1 \in Peers : \A w2 \in Peers :
          (w1 # w2 /\ wk[w1].pc \in Holding /\ wk[w2].pc \in Holding)
              => wk[w1].index # wk[w2].index
    /\ \A i \in Bundles : doneCalls[i] <= 1
\* two workers hold bundles at once, after a bundle was completed
C3_Witness ==
    /\ \E w1 \in Peers : \E w2 \in Peers :
          w1 # w2 /\ wk[w1].pc \in Holding /\ wk[w2].pc \in Holding
    /\ \E i \in Bundles : doneCalls[i] = 1

\* C4: the snapshot of sync_headers is applied iff its work is strictly
\* greater than the live chain's; otherwise it is dropped without error, and
\* the live chain's work never decreases.
C4_SnapshotByWork ==
    [][/\ Chain(headers').work >= Chain(headers).work
       /\ headers' # headers => pc = "snapshot"
       /\ (pc = "snapshot" /\ snapshot # None /\ pc' # "err") =>
             /\ pc' = "prepare"
             /\ headers' = snapshot[1] <=> Chain(snapshot[1]).work > Chain(headers).work
             /\ headers' # snapshot[1] => headers' = headers]_vars
\* a snapshot of no more work than the live chain has just been dropped
C4_Witness ==
    /\ pc = "prepare"
    /\ headers # peerChain
    /\ Chain(peerChain).tip > CommonHeight(headers, peerChain)
    /\ Chain(peerChain).work <= Chain(headers).work

\* C5: after the workers are joined, last_synced_block is the minimum of the
\* synced height and the heights for which on_match returned true.
AfterJoin == {"delete", "mempool", "replay", "index_int", "prune", "done", "ok"}
RECURSIVE MinOfSet(_, _)
MinOfSet(S, m) ==
    IF S = {} THEN m
    ELSE LET x == CHOOSE y \in S : TRUE
         IN MinOfSet(S \ {x}, IF x < m THEN x ELSE m)
C5_LastSyncedIsMinimum ==
    pc \in AfterJoin => last_synced_block = MinOfSet(matchedTrue, loc.synced_height)
\* several peers, matches in more than one bundle
C5_Witness ==
    /\ pc = "delete"
    /\ numPeers > 1
    /\ \E h1 \in matchedTrue : \E h2 \in matchedTrue : BundleOf(h1) # BundleOf(h2)
    /\ last_synced_block < loc.synced_height

\* C6: after setup succeeds, every transaction T of the wallet DB with height
\* h is in a persisted full block at height h whose filter matched one of the
\* wallet's scripts, or h = None and T is in the designated peer's mempool.
InMempool(t) == \E k \in 1..Len(mempool) : mempool[k] = t
C7_LastIndexCoversReplay ==
    [][/\ \A st \in ScriptTypes :
             /\ dbLastIndex[st] # None => dbLastIndex'[st] # None
             /\ UnwrapOr(dbLastIndex'[st], 0) >= UnwrapOr(dbLastIndex[st], 0)
       /\ pc' = "ok" =>
             \A p \in observed' : /\ dbLastIndex'[p[1]] # None
                                  /\ dbLastIndex'[p[1]][1] >= p[2] + 1]_vars
\* a successful replay that saw a lower External index after a higher one
C7_Witness ==
    /\ pc = "ok"
    /\ {<<"External", 0>>, <<"External", 1>>, <<"Internal", 1>>} \subseteq observed
    /\ dbLastIndex["External"] = Some(2)

\* C8: a second setup with no new blocks, the same peer mempool and the same
\* wallet scripts leaves the wallet DB (transactions, UTXOs, last indices) and
\* the chain store as the first call left them, but for pruned full blocks.
C8_SecondSetupChangesNothing ==
    (pc = "ok" /\ lastOk # None) =>
        /\ dbTxs = lastOk[1].dbTxs
        /\ dbUtxos = lastOk[1].dbUtxos
        /\ dbLastIndex = lastOk[1].dbLastIndex
        /\ headers = lastOk[1].headers
        /\ \A h \in Slots : fullBlocks[h] \in {lastOk[1].fullBlocks[h], "none"}

\* C9: when a sync downloads a block at height h whose hash differs from the
\* full block persisted at h, every wallet transaction with height >= h is
\* deleted and the persisted blocks are replayed, so no transaction of the
\* replaced block is left in the wallet DB with height h after setup.
HasHeight(t, h) == dbTxs[t] # None /\ dbTxs[t][1].height = Some(h)
C9_ReplacedBlockTxsGone ==
    pc = "ok" => \A r \in replaced : \A t \in TxsOf(r[2]) : ~HasHeight(t, r[1])
\* C9 as amended: last_synced_block is lowered to h or below, the deletion
\* leaves no wallet transaction with height >= h or without a height, and
\* after a setup that succeeds no transaction of the replaced block that is
\* not also in the block that replaced it has height h in the wallet DB.
C9_ReplacedOnlyTxsGone ==
    /\ pc \in AfterJoin => \A r \in replaced : last_synced_block <= r[1]
    /\ pc = "mempool" => \A r \in replaced : \A t \in TxIds :
                            dbTxs[t] # None => /\ dbTxs[t][1].height # None
                                               /\ dbTxs[t][1].height[1] < r[1]
    /\ pc = "ok" => \A r \in replaced :
                       \A t \in TxsOf(r[2]) \ TxsOf(r[3]) : ~HasHeight(t, r[1])
\* a successful setup replaced a block whose transaction the wallet held at
\* that height, and the new block holds another transaction of the old one
C9_Witness ==
    /\ pc = "ok"
    /\ \E r \in replaced :
          /\ \E t \in TxsOf(r[2]) \ TxsOf(r[3]) :
                /\ before[1].dbTxs[t] # None
                /\ before[1].dbTxs[t][1].height = Some(r[1])
                /\ dbTxs[t] = None
          /\ \E t \in TxsOf(r[2]) \cap TxsOf(r[3]) : HasHeight(t, r[1])

\* C10: the wallet DB holds a transaction at h2 that spends a wallet UTXO; a
\* re-sync finds no filter match at h2 but a new match at h1 < h2. After setup
\* the transaction at h2 is absent, the UTXOs it spent are back in the UTXO
\* set, and the new UTXOs of the block at h1 are present.
WalletInputs(t) ==
    {TxInput(t)[k] : k \in {j \in 1..Len(TxInput(t)) :
        /\ TxInput(t)[j][1] \in TxIds
        /\ IsMine(TxOutput(TxInput(t)[j][1])[TxInput(t)[j][2]].script)}}
C10_ReorgedSpendUndone ==
    pc = "ok" =>
      \A t \in TxIds : \A h2 \in Slots : \A h1 \in matchedTrue :
        ( /\ before[1].dbTxs[t] # None
          /\ before[1].dbTxs[t][1].height = Some(h2)
          /\ before[1].dbTxs[t][1].sent > 0
          /\ ~MatchAny(Chain(headers).blk[h2], AllScripts)
          /\ h1 < h2 )
        => /\ dbTxs[t] = None
           /\ WalletInputs(t) \subseteq dbUtxos
           /\ \A n \in TxsOf(Chain(headers).blk[h1]) : NewUtxos(n) \subseteq dbUtxos
\* C11: when skip_blocks is greater than the first peer's start_height, the
\* number of bundles setup expects to sync is zero, and a setup that succeeds
\* changes the wallet DB only by the transactions of the mempool.
C11_SkipAboveTipExpectsNothing ==
    (pc = "ok" /\ skip_blocks > startHeight) =>
        /\ loc.expected_bundles_to_sync = 0
        /\ \A i \in Bundles : doneCalls[i] = 0
        /\ \A t \in TxIds :
              IF before[1].dbTxs[t] # None /\ before[1].dbTxs[t][1].height # None
              THEN dbTxs[t] = before[1].dbTxs[t]
              ELSE dbTxs[t] # None => dbTxs[t][1].height = None /\ InMempool(t)
\* C12: if a worker thread returns an error, setup returns an error, the
\* error of the thread that failed first, and reaches none of the deletion,
\* replay, index-update and pruning steps.
C12_FirstFailedThreadsError ==
    firstFailed # 0 =>
        /\ pc \in {"workers", "err"}
        /\ pc = "err" => errAt = "join" /\ errThread = firstFailed
\* C12 as amended: the error returned is that of the first thread, in the
\* order the threads were spawned and are joined, that has failed; the wallet
\* DB is not touched on the way.
C12_FirstJoinedThreadsError ==
    [][(pc = "workers" /\ \E w \in Peers : wk[w].pc = "failed") =>
          /\ firstFailed # 0
          /\ pc' \in {"workers", "err"}
          /\ UNCHANGED dbVars
          /\ pc' = "err" =>
                /\ errAt' = "join"
                /\ wk[errThread'].pc = "failed"
                /\ \A v \in 1..(errThread' - 1) : wk[v].pc # "failed"]_vars
\* two threads failed, and the error returned is not that of the one that
\* failed first
C12_Witness ==
    /\ pc = "err"
    /\ errAt = "join"
    /\ firstFailed # 0
    /\ errThread # firstFailed
\* C13: every mutation setup makes to the wallet database goes through
\* begin_batch/commit_batch, and a setup call that fails never leaves the
\* wallet DB with only part of its mutations committed: the wallet DB is then
\* as the call found it, or holds all of them (a failure of the pruning).
C13_BatchedAllOrNothing ==
    /\ directWrites = {}
    /\ pc = "err" => WalletDb = before[1] \/ errAt = "prune"
\* C14: every percentage passed to the progress sink lies in 0..=100,
\* whatever the stored height, the start_height, skip_blocks, the bundles
\* already pruned, the headers received and the bundles completed.
PctInRange(pct) == 0 <= pct[1] /\ pct[1] <= pct[2]
C14_PercentInRange ==
    \A i \in 1..Len(sink) : PctInRange(sink[i].pct)
\* C15: when the designated peer's mempool contains a transaction spending a
\* wallet UTXO, a successful setup stores it with height = None, sent = the
\* value of the UTXO and received = 0, and the UTXO is deleted; once the
\* transaction is confirmed in a matched block, the next successful setup
\* leaves the wallet DB's entry for the txid at the confirming height.
RECURSIVE ValueOfAll(_)
ValueOfAll(ops) ==
    IF ops = {} THEN 0
    ELSE LET op == CHOOSE o \in ops : TRUE
         IN TxOutput(op[1])[op[2]].value + ValueOfAll(ops \ {op})
SpendsWalletUtxo(t) == WalletInputs(t) \cap before[1].dbUtxos
C15_MempoolSpendThenConfirmed ==
    pc = "ok" =>
      \A t \in TxIds :
        /\ (InMempool(t) /\ SpendsWalletUtxo(t) # {}) =>
              /\ dbTxs[t] # None
              /\ dbTxs[t][1].height = None
              /\ dbTxs[t][1].sent = ValueOfAll(SpendsWalletUtxo(t))
              /\ dbTxs[t][1].received = 0
              /\ SpendsWalletUtxo(t) \cap dbUtxos = {}
        /\ \A h \in matchedTrue :
              ( /\ before[1].dbTxs[t] # None
                /\ before[1].dbTxs[t][1].height = None
                /\ before[1].dbTxs[t][1].sent > 0
                /\ t \in TxsOf(Chain(headers).blk[h]) )
              => HasHeight(t, h)
\* C16: on_match returns true exactly when the filter matches at least one
\* wallet script and the store holds no full block at that height whose hash
\* is block_hash; when it returns false, last_synced_block is unchanged.
OnMatchStep(w) ==
    /\ pc = "workers" /\ wk[w].pc = "filters" /\ wk[w].queue # <<>>
    /\ \/ wk'[w].pc = "download"
       \/ wk'[w].pc = "filters" /\ wk'[w].queue = Tail(wk[w].queue)
C16_OnMatchTrueIffNewMatch ==
    [][\A w \in Peers : OnMatchStep(w) =>
          LET h == Head(wk[w].queue)
              b == Chain(headers).blk[h]
              returned == wk'[w].pc = "download"
          IN /\ returned <=> (FilterScripts(b) \cap AllScripts # {} /\ fullBlocks[h] # b)
             /\ returned => last_synced_block' <= h /\ last_synced_block' <= last_synced_block
             /\ ~returned => last_synced_block' = last_synced_block]_vars
\* A worker has passed a matching block that the store already holds (false)
\* and waits to download another block of the same bundle (true).
C16_Witness ==
    /\ pc = "workers"
    /\ \E w \in Peers :
          /\ wk[w].pc = "download"
          /\ \E h \in BundleSlots(headers, wk[w].index) :
                /\ h < Head(wk[w].queue)
                /\ fullBlocks[h] = Chain(headers).blk[h]
                /\ MatchAny(fullBlocks[h], AllScripts)
                /\ h \notin matchedTrue
\* C17: the deletion step of setup removes exactly the transactions whose
\* height is at or above last_synced_block: a transaction below it is
\* retained and no transaction confirmed at or above it survives the step.
DeletionStep == pc = "delete" /\ pc' = "mempool"
C17_DeletesExactlyAtOrAbove ==
    [][DeletionStep =>
          \A t \in TxIds :
             /\ dbTxs[t] = None => dbTxs'[t] = None
             /\ dbTxs[t] # None =>
                   /\ dbTxs'[t] \in {None, dbTxs[t]}
                   /\ dbTxs'[t] = None <=>
                         (dbTxs[t][1].height # None /\ dbTxs[t][1].height[1] >= last_synced_block)]_vars
\* C17 (amended): the step removes exactly the transactions that are
\* unconfirmed or confirmed at or above last_synced_block.
C17_DeletesUnconfirmedAndAtOrAbove ==
    [][DeletionStep =>
          \A t \in TxIds :
             /\ dbTxs[t] = None => dbTxs'[t] = None
             /\ dbTxs[t] # None =>
                   /\ dbTxs'[t] \in {None, dbTxs[t]}
                   /\ dbTxs'[t] = None <=>
                         \/ dbTxs[t][1].height = None
                         \/ dbTxs[t][1].height[1] >= last_synced_block]_vars
\* The deletion has just dropped a confirmed transaction and kept another.
C17_Witness ==
    /\ pc = "mempool"
    /\ \E t \in TxIds :
          /\ before[1].dbTxs[t] # None /\ before[1].dbTxs[t][1].height # None
          /\ before[1].dbTxs[t][1].height[1] >= last_synced_block
          /\ dbTxs[t] = None
    /\ \E t \in TxIds :
          /\ dbTxs[t] # None /\ dbTxs[t] = before[1].dbTxs[t]
          /\ dbTxs[t][1].height[1] < last_synced_block
\* C18: process_tx stores a TransactionDetails exactly when incoming > 0 or
\* outgoing > 0; the record has received = incoming, sent = outgoing and
\* fees = max(0, inputs_sum - outputs_sum), which is never negative.
RECURSIVE SumSeq(_)
SumSeq(q) == IF q = <<>> THEN 0 ELSE Head(q) + SumSeq(Tail(q))
OutputsSumOf(t) == SumSeq([k \in 1..Len(TxOutput(t)) |-> TxOutput(t)[k].value])
IncomingOf(t) ==
    SumSeq([k \in 1..Len(TxOutput(t)) |->
              IF PathOf(TxOutput(t)[k].script) # <<>> THEN TxOutput(t)[k].value ELSE 0])
InputsSumOf(t) ==
    SumSeq([k \in 1..Len(TxInput(t)) |->
              LET op == TxInput(t)[k]
              IN IF op[1] \in dbRaw THEN TxOutput(op[1])[op[2]].value ELSE 0])
OutgoingOf(t) ==
    SumSeq([k \in 1..Len(TxInput(t)) |->
              LET op == TxInput(t)[k]
              IN IF op[1] \in dbRaw /\ IsMine(TxOutput(op[1])[op[2]].script)
                 THEN TxOutput(op[1])[op[2]].value ELSE 0])
ProcessTxStep == pc = "replay" /\ pc' = "replay" /\ replayQ # <<>> /\ replayQ' = Tail(replayQ)
C18_StoresIffOursWithClampedFee ==
    [][ProcessTxStep =>
          LET height == Head(replayQ)[1]
              t == Head(replayQ)[2]
              ours == IncomingOf(t) > 0 \/ OutgoingOf(t) > 0
          IN /\ \A u \in TxIds \ {t} : dbTxs'[u] = dbTxs[u]
             /\ ~ours => dbTxs'[t] = dbTxs[t]
             /\ ours =>
                   /\ dbTxs'[t] # None
                   /\ dbTxs'[t][1].received = IncomingOf(t)
                   /\ dbTxs'[t][1].sent = OutgoingOf(t)
                   /\ dbTxs'[t][1].height = height
                   /\ dbTxs'[t][1].fees >= 0
                   /\ dbTxs'[t][1].fees =
                         IF InputsSumOf(t) > OutputsSumOf(t)
                         THEN InputsSumOf(t) - OutputsSumOf(t) ELSE 0]_vars
\* The replay has stored one transaction whose fee was clamped to 0 and one
\* with a positive fee.
C18_Witness ==
    /\ pc = "replay"
    /\ \E t \in TxIds :
          /\ dbTxs[t] # None /\ dbTxs[t][1].fees = 0
          /\ InputsSumOf(t) < OutputsSumOf(t)
    /\ \E t \in TxIds : dbTxs[t] # None /\ dbTxs[t][1].fees > 0
\* C19: the wallet-update steps of setup run in the order: delete
\* transactions, ask for the mempool, replay every persisted full block in
\* ascending height, replay the mempool, advance the last indices, prune; no
\* full block is pruned before it has been replayed in that call.
BlocksThenMempool(q) ==
    /\ \A i, j \in 1..Len(q) :
          i < j => /\ q[i][1] = None => q[j][1] = None
                   /\ (q[i][1] # None /\ q[j][1] # None) => q[i][1][1] <= q[j][1][1]
    /\ \A h \in Slots : \A t \in TxsOf(fullBlocks[h]) :
          \E k \in 1..Len(q) : q[k] = <<Some(h), t>>
    /\ \A m \in 1..Len(mempool) : \E k \in 1..Len(q) : q[k] = <<None, mempool[m]>>
C19_WalletUpdateOrder ==
    [][/\ (pc = "delete" /\ pc' # pc) => pc' \in {"mempool", "err"}
       /\ (pc = "mempool" /\ pc' # pc) =>
             /\ pc' \in {"replay", "err"}
             /\ pc' = "replay" => BlocksThenMempool(replayQ')
       /\ (pc = "replay" /\ pc' = pc) => replayQ # <<>> /\ replayQ' = Tail(replayQ)
       /\ (pc = "replay" /\ pc' # pc) =>
             /\ pc' \in {"index_int", "err"}
             /\ pc' = "index_int" => replayQ = <<>>
       /\ (pc = "index_int" /\ pc' # pc) => pc' \in {"prune", "err"}
       /\ (pc = "prune" /\ pc' # pc) => pc' \in {"done", "err"}
       /\ (pc \in AfterJoin /\ fullBlocks' # fullBlocks) =>
             /\ pc = "prune"
             /\ \A h \in Slots : fullBlocks'[h] \in {"none", fullBlocks[h]}
       /\ (pc \in AfterJoin /\ dbLastIndex' # dbLastIndex) =>
             /\ pc \in {"replay", "index_int"}
             /\ replayQ = <<>>]_vars
\* setup has pruned a full block whose transaction it stored in this call.
C19_Witness ==
    /\ pc = "done"
    /\ \E h \in Slots : \E t \in TxIds :
          /\ fullBlocks[h] = "none"
          /\ h < loc.buried_height
          /\ before[1].dbTxs[t] = None
          /\ HasHeight(t, h)
    /\ \E t \in TxIds : dbTxs[t] # None /\ dbTxs[t][1].height = None
\* C20: in every setup call the header sync, the conditional apply_snapshot
\* and prepare_sync have completed before any worker thread is spawned, hence
\* before the first bundle is claimed in that sync cycle.
Spawned(w) == wk[w].pc # "off"
C20_SyncedBeforeSpawn ==
    [][/\ (pc = "sync_headers" /\ pc' # pc) =>
             /\ pc' \in {"snapshot", "err"}
             /\ pc' = "snapshot" => hdrQ = <<>>
       /\ (pc = "snapshot" /\ pc' # pc) =>
             /\ pc' \in {"prepare", "err"}
             /\ pc' = "prepare" => snapshot' = None
       /\ (pc = "prepare" /\ pc' # pc) => pc' \in {"spawn", "err"}
       /\ (pc = "spawn" /\ pc' # pc) => pc' = "workers"
       /\ (\E w \in Peers : ~Spawned(w) /\ Spawned(w)') =>
             /\ pc = "spawn"
             /\ hdrQ = <<>> /\ snapshot = None
             /\ \A i \in Bundles : bundles[i] = PreparedBundle(i)
       /\ (\E i \in Bundles : bundles[i].status # "Waiting" /\ bundles'[i].status = "Waiting") =>
             /\ pc = "workers"
             /\ hdrQ = <<>> /\ snapshot = None
       /\ (\E w \in Peers : Spawned(w)) => UNCHANGED <<headers, hdrQ, snapshot>>
       /\ headers' # headers => pc = "snapshot"]_vars
\* A worker has claimed a bundle of the header chain that the snapshot of
\* this call brought in.
C20_Witness ==
    /\ pc = "workers"
    /\ setups = 1
    /\ headers = peerChain /\ headers # "G"
    /\ \E w \in Peers : wk[w].pc = "filters" /\ bundles[wk[w].index].status = "Waiting"
\* C21: after setup succeeds the chain store holds no full block below
\* tip - BURIED_CONFIRMATIONS (0 when the tip is lower), tip being the header
\* height after the header sync, whatever the block's filter matched; the
\* pruning removes no full block at or above that height.
Horizon(tip) == IF tip >= BURIED_CONFIRMATIONS THEN tip - BURIED_CONFIRMATIONS ELSE 0
C21_PrunedBelowHorizon ==
    [][/\ (pc = "prune" /\ pc' = "done") =>
             \A h \in Slots :
                h >= Horizon(Chain(headers).tip) => fullBlocks'[h] = fullBlocks[h]
       /\ pc' \in {"done", "ok"} =>
             \A h \in Slots :
                h < Horizon(Chain(headers').tip) => fullBlocks'[h] = "none"]_vars
\* setup has succeeded, a block it once stored below the horizon is gone and
\* the block at the horizon itself is still there.
C21_Witness ==
    /\ pc = "ok"
    /\ \E h \in Slots : \E b \in {"bA", "bB", "bC", "bD", "bBD"} :
          /\ h < Horizon(Chain(headers).tip)
          /\ <<h, b>> \in everSaved
          /\ fullBlocks[h] = "none"
    /\ \E h \in Slots : h = Horizon(Chain(headers).tip) /\ fullBlocks[h] # "none"
\* C22: if setup fails during the header sync, prepare_sync or in a worker
\* thread, the wallet database is exactly as it was before the call: every
\* wallet DB write happens after all worker threads were joined successfully.
BeforeWalletUpdate == {"sync_headers", "snapshot", "prepare", "join"}
C22_NoWalletWriteBeforeJoin ==
    [][/\ dbVars' # dbVars =>
             /\ pc \in AfterJoin
             /\ \A w \in Peers : wk[w].pc = "off"
             /\ firstFailed = 0
       /\ (pc' = "err" /\ errAt' \in BeforeWalletUpdate) =>
             <<dbTxs', dbRaw', dbUtxos', dbLastIndex'>> =
                <<before'[1].dbTxs, before'[1].dbRaw, before'[1].dbUtxos, before'[1].dbLastIndex>>]_vars
\* A setup on a wallet DB that holds an unconfirmed transaction has failed in
\* a worker thread.
C22_Witness ==
    /\ pc = "err"
    /\ errAt = "join"
    /\ \E t \in TxIds : dbTxs[t] # None /\ dbTxs[t][1].height = None
    /\ dbUtxos # {}
    /\ WalletDb = before[1]
====
